---- MODULE Spec2Model ----
(***************************************************************************)
(* Model of the ICD diagnosis-code API (Django + Django REST framework).   *)
(*                                                                         *)
(* State: the two tables of diagnosis/models.py, the auto-increment id     *)
(* counters of the store, the one request handler that may be suspended    *)
(* between serializer.is_valid() and serializer.save() (views.py), the     *)
(* last response handed to a caller, and the state of a client walking     *)
(* the pages of a Code listing.                                            *)
(*                                                                         *)
(* Text values are sequences of character codes, so that ordering,         *)
(* lower-casing and substring search are computed as the store computes    *)
(* them.  created_at / updated_at are read-only timestamps that no         *)
(* operation reads; they are not part of the state.                        *)
(***************************************************************************)
EXTENDS Integers, Sequences, FiniteSets, TLC

VARIABLES categories, codes, catSeq, codeSeq, pending, resp, walk

vars == <<categories, codes, catSeq, codeSeq, pending, resp, walk>>
store == <<categories, codes, catSeq, codeSeq>>

----------------------------------------------------------------------------
(* Bounds of the model. *)

\* highest primary key the store hands out to a Category / to a Code
MaxCatId == 2
MaxCodeId == 2
\* rows per CSV table of one import run
MaxRows == 1
\* Codes in the store of the listing specification
MaxListCodes == 3

----------------------------------------------------------------------------
(* Text. *)

\* "ICD-9" and "ICD-10" as character codes
ICD9 == <<73, 67, 68, 45, 57>>
ICD10 == <<73, 67, 68, 45, 49, 48>>
Versions == {ICD9, ICD10}

\* category = NULL (models.py: null=True); primary keys start at 1
None == 0

\* str.lower() / SQL LOWER on ASCII letters
LowerChar(c) == IF c >= 65 /\ c <= 90 THEN c + 32 ELSE c
Lower(s) == [i \in 1..Len(s) |-> LowerChar(s[i])]

\* s < t in the store's (binary) collation: lexicographic on character codes
RECURSIVE StrLess(_, _)
StrLess(s, t) ==
    IF t = <<>> THEN FALSE
    ELSE IF s = <<>> THEN TRUE
    ELSE IF Head(s) # Head(t) THEN Head(s) < Head(t)
    ELSE StrLess(Tail(s), Tail(t))

\* LIKE '%term%' with the term escaped: literal substring
Contains(s, term) ==
    \E i \in 0..(Len(s) - Len(term)) :
        \A j \in 1..Len(term) : s[i + j] = term[j]

\* __icontains
IContains(s, term) == Contains(Lower(s), Lower(term))

----------------------------------------------------------------------------
(* Request payloads.  data.has is the set of fields present in the request *)
(* body; a field outside data.has carries a fixed filler value that no     *)
(* operator reads.                                                         *)

CodeFields ==
    {"category", "diagnosis_code", "full_code", "abbreviated_description",
     "full_description", "icd_version", "is_active", "valid_from", "valid_to"}
CategoryFields == {"code", "title", "icd_version"}

\* sample values of the text fields: "A0", "0", "flu", "Flu A"
FullCodes == {<<65, 48>>}
SubCodes == {<<48>>}
ShortTexts == {<<102, 108, 117>>}
LongTexts == {<<70, 108, 117, 32, 65>>}
\* category codes "A"; titles "T"
CatCodes == {<<65>>}
Titles == {<<84>>}

CatRefs == {None} \cup (1..MaxCatId)

\* the sampled bodies carry the four text fields together, and leave
\* is_active, valid_from and valid_to out
TextBlock ==
    {"diagnosis_code", "full_code", "abbreviated_description", "full_description"}
CodeHasSets ==
    {h \in SUBSET ({"category", "icd_version"} \cup TextBlock) :
        (TextBlock \cap h # {}) => TextBlock \subseteq h}

CodeFiller ==
    [category |-> None, diagnosis_code |-> <<48>>, full_code |-> <<65, 48>>,
     abbreviated_description |-> <<102, 108, 117>>,
     full_description |-> <<70, 108, 117, 32, 65>>, icd_version |-> ICD10,
     is_active |-> TRUE, valid_from |-> None, valid_to |-> None]

CodeData ==
    {d \in [has : CodeHasSets, category : CatRefs, diagnosis_code : SubCodes,
            full_code : FullCodes, abbreviated_description : ShortTexts,
            full_description : LongTexts, icd_version : Versions,
            is_active : {TRUE}, valid_from : {None}, valid_to : {None}] :
        \A f \in CodeFields \ d.has : d[f] = CodeFiller[f]}

CategoryFiller == [code |-> <<65>>, title |-> <<84>>, icd_version |-> ICD10]

CategoryData ==
    {d \in [has : SUBSET CategoryFields, code : CatCodes, title : Titles,
            icd_version : Versions] :
        \A f \in CategoryFields \ d.has : d[f] = CategoryFiller[f]}

----------------------------------------------------------------------------
(* Responses. *)

\* status and field-keyed errors of an HTTP response; the import command
\* reports its summary counters instead (kind "import")
Response(status, errors) ==
    [kind |-> "http", status |-> status, errors |-> errors, summary |-> <<>>]

\* nothing has been answered yet
NoResponse == [kind |-> "none", status |-> 0, errors |-> {}, summary |-> <<>>]

ImportReport(errors, summary) ==
    [kind |-> "import", status |-> 0, errors |-> errors, summary |-> summary]

HTTP_200_OK == 200
HTTP_201_CREATED == 201
HTTP_204_NO_CONTENT == 204
HTTP_400_BAD_REQUEST == 400
HTTP_404_NOT_FOUND == 404
\* an exception that no handler catches leaves the view
HTTP_500_INTERNAL_SERVER_ERROR == 500

----------------------------------------------------------------------------
(* The store: constraints of diagnosis/models.py.                          *)

\* unique_together = ("full_code", "icd_version"), checked for the row pk
CodeUnique(pk, row) ==
    \A k \in DOMAIN codes \ {pk} :
        ~(codes[k].full_code = row.full_code /\ codes[k].icd_version = row.icd_version)

\* a column without the foreign-key constraint
Mutant_CodeForeignKey(row) == TRUE

\* the foreign key of DiagnosisCode.category
CodeForeignKey(row) == row.category = None \/ row.category \in DOMAIN categories

\* unique_together = ("code", "icd_version")
CategoryUnique(pk, row) ==
    \A k \in DOMAIN categories \ {pk} :
        ~(categories[k].code = row.code /\ categories[k].icd_version = row.icd_version)

\* on_delete without protection: the delete sees no referencing Code
Mutant_DiagnosisCodesOf(pk) == {}

\* related_name="diagnosis_codes"
DiagnosisCodesOf(pk) == {k \in DOMAIN codes : codes[k].category = pk}

----------------------------------------------------------------------------
(* DiagnosisCodeSerializer. *)

RequiredCodeFields ==
    {"diagnosis_code", "full_code", "abbreviated_description", "full_description",
     "icd_version"}

\* field-level validation; pk = None on create, partial on PATCH
CodeFieldErrors(data, partial) ==
    (IF partial THEN {} ELSE RequiredCodeFields \ data.has)
    \cup {f \in {"category"} :
            /\ "category" \in data.has
            /\ data.category # None
            /\ data.category \notin DOMAIN categories}

\* a serializer without the unique-together validator
Mutant_CodeUniqueTogetherOk(data, pk) == TRUE

\* UniqueTogetherValidator generated from DiagnosisCode.Meta.unique_together:
\* on an update a field the body omits is read from the instance, and the
\* instance itself is excluded
CodeUniqueTogetherOk(data, pk) ==
    LET attr(f) == IF f \in data.has THEN data[f] ELSE codes[pk][f]
    IN  CodeUnique(pk, [full_code |-> attr("full_code"),
                        icd_version |-> attr("icd_version")])

\* a validate() that compares nothing
Mutant_validate(data) == {}

\* DiagnosisCodeSerializer.validate: the errors it raises
validate(data) ==
    IF /\ "category" \in data.has /\ data.category # None
       /\ "icd_version" \in data.has /\ data.icd_version # <<>>
    THEN IF categories[data.category].icd_version # data.icd_version
         THEN {"icd_version"}
         ELSE {}
    ELSE {}

\* serializer.is_valid(): serializer.errors; field errors stop the run before
\* the validators, a validator error stops it before validate()
CodeErrors(data, pk, partial) ==
    IF CodeFieldErrors(data, partial) # {} THEN CodeFieldErrors(data, partial)
    ELSE IF ~CodeUniqueTogetherOk(data, pk) THEN {"non_field_errors"}
    ELSE validate(data)

\* serializer.save() on create: omitted fields take the model defaults
NewCode(data) ==
    [f \in CodeFields |->
        IF f \in data.has THEN data[f]
        ELSE IF f = "is_active" THEN TRUE
        ELSE None]

\* an update that overwrites the omitted fields as well
Mutant_UpdatedCode(instance, data) ==
    [f \in CodeFields |-> IF f \in data.has THEN data[f] ELSE CodeFiller[f]]

\* serializer.save() on update: the validated fields are set on the instance
UpdatedCode(instance, data) ==
    [f \in CodeFields |-> IF f \in data.has THEN data[f] ELSE instance[f]]

----------------------------------------------------------------------------
(* DiagnosisCategorySerializer. *)

CategoryFieldErrors(data) == CategoryFields \ data.has

Mutant_CategoryUniqueTogetherOk(data, pk) == TRUE

\* UniqueTogetherValidator generated from DiagnosisCategory.Meta.unique_together
CategoryUniqueTogetherOk(data, pk) ==
    CategoryUnique(pk, [code |-> data.code, icd_version |-> data.icd_version])

CategoryErrors(data, pk) ==
    IF CategoryFieldErrors(data) # {} THEN CategoryFieldErrors(data)
    ELSE IF ~CategoryUniqueTogetherOk(data, pk) THEN {"non_field_errors"}
    ELSE {}

NewCategory(data) == [f \in CategoryFields |-> data[f]]

----------------------------------------------------------------------------
(* Handlers of diagnosis/views.py.                                         *)
(*                                                                         *)
(* A handler is written as the outcome it computes from the current state: *)
(* the response and the store it leaves.  Serve makes that outcome the     *)
(* next state.                                                             *)
(*                                                                         *)
(* A handler runs get_object_or_404 and serializer.is_valid() against the  *)
(* store, then serializer.save() (or delete()) writes.  The store runs in  *)
(* autocommit, so another request may run between the two; `suspend`       *)
(* chooses whether this one is overtaken there.  At most one handler is    *)
(* suspended at a time: because the first part only reads, this covers     *)
(* every interleaving of two overlapping requests.                         *)

\* answer r and leave the store alone
Answer(r) ==
    [categories |-> categories, codes |-> codes, catSeq |-> catSeq,
     codeSeq |-> codeSeq, pending |-> pending, resp |-> r]

\* stop before the write; nothing is answered yet
Suspend(op, pk, row) ==
    [Answer(resp) EXCEPT !.pending = {[op |-> op, pk |-> pk, row |-> row]}]

\* Model.save() of a Code: INSERT of a new row, or UPDATE of the row pk, which
\* Django turns into an INSERT when no row has that pk any more; a violated
\* constraint raises IntegrityError out of the view
SaveCode(pk, row, okStatus) ==
    IF CodeUnique(pk, row) /\ CodeForeignKey(row)
    THEN [Answer(Response(okStatus, {})) EXCEPT
            !.codes = (IF pk = None THEN (codeSeq + 1) :> row ELSE pk :> row) @@ codes,
            !.codeSeq = IF pk = None THEN codeSeq + 1 ELSE codeSeq]
    ELSE Answer(Response(HTTP_500_INTERNAL_SERVER_ERROR, {"IntegrityError"}))

SaveCategory(pk, row, okStatus) ==
    IF CategoryUnique(pk, row)
    THEN [Answer(Response(okStatus, {})) EXCEPT
            !.categories =
                (IF pk = None THEN (catSeq + 1) :> row ELSE pk :> row) @@ categories,
            !.catSeq = IF pk = None THEN catSeq + 1 ELSE catSeq]
    ELSE Answer(Response(HTTP_500_INTERNAL_SERVER_ERROR, {"IntegrityError"}))

\* the DELETE statement of category.delete(), after the collector found no
\* protected Code: the foreign key still rejects it if a Code arrived since;
\* the handler's `except Exception` turns that into a 400
DeleteCategory(pk) ==
    IF DiagnosisCodesOf(pk) = {}
    THEN [Answer(Response(HTTP_204_NO_CONTENT, {})) EXCEPT
            !.categories = [k \in DOMAIN categories \ {pk} |-> categories[k]]]
    ELSE Answer(Response(HTTP_400_BAD_REQUEST, {"error"}))

\* POST /codes/
diagnosis_code_list_create_POST(data, suspend) ==
    IF CodeErrors(data, None, FALSE) # {}
    THEN Answer(Response(HTTP_400_BAD_REQUEST, CodeErrors(data, None, FALSE)))
    ELSE IF suspend THEN Suspend("create_code", None, NewCode(data))
    ELSE SaveCode(None, NewCode(data), HTTP_201_CREATED)

\* an update that writes the body before it answers the validation error
Mutant_CodeUpdate(pk, data, partial, suspend) ==
    IF pk \notin DOMAIN codes
    THEN Answer(Response(HTTP_404_NOT_FOUND, {"detail"}))
    ELSE IF CodeErrors(data, pk, partial) # {}
    THEN [Answer(Response(HTTP_400_BAD_REQUEST, CodeErrors(data, pk, partial))) EXCEPT
            !.codes = (pk :> UpdatedCode(codes[pk], data)) @@ codes]
    ELSE IF suspend THEN Suspend("update_code", pk, UpdatedCode(codes[pk], data))
    ELSE SaveCode(pk, UpdatedCode(codes[pk], data), HTTP_200_OK)

\* PUT and PATCH /codes/{pk}/
CodeUpdate(pk, data, partial, suspend) ==
    IF pk \notin DOMAIN codes
    THEN Answer(Response(HTTP_404_NOT_FOUND, {"detail"}))
    ELSE IF CodeErrors(data, pk, partial) # {}
    THEN Answer(Response(HTTP_400_BAD_REQUEST, CodeErrors(data, pk, partial)))
    ELSE IF suspend THEN Suspend("update_code", pk, UpdatedCode(codes[pk], data))
    ELSE SaveCode(pk, UpdatedCode(codes[pk], data), HTTP_200_OK)

diagnosis_code_detail_PUT(pk, data, suspend) == CodeUpdate(pk, data, FALSE, suspend)

diagnosis_code_detail_PATCH(pk, data, suspend) == CodeUpdate(pk, data, TRUE, suspend)

\* GET /codes/{pk}/
diagnosis_code_detail_GET(pk) ==
    IF pk \in DOMAIN codes
    THEN Answer(Response(HTTP_200_OK, {}))
    ELSE Answer(Response(HTTP_404_NOT_FOUND, {"detail"}))

\* DELETE /codes/{pk}/
diagnosis_code_detail_DELETE(pk) ==
    IF pk \in DOMAIN codes
    THEN [Answer(Response(HTTP_204_NO_CONTENT, {})) EXCEPT
            !.codes = [k \in DOMAIN codes \ {pk} |-> codes[k]]]
    ELSE Answer(Response(HTTP_404_NOT_FOUND, {"detail"}))

\* POST /categories/
diagnosis_category_list_create_POST(data, suspend) ==
    IF CategoryErrors(data, None) # {}
    THEN Answer(Response(HTTP_400_BAD_REQUEST, CategoryErrors(data, None)))
    ELSE IF suspend THEN Suspend("create_category", None, NewCategory(data))
    ELSE SaveCategory(None, NewCategory(data), HTTP_201_CREATED)

\* PUT /categories/{pk}/
diagnosis_category_detail_PUT(pk, data, suspend) ==
    IF pk \notin DOMAIN categories
    THEN Answer(Response(HTTP_404_NOT_FOUND, {"detail"}))
    ELSE IF CategoryErrors(data, pk) # {}
    THEN Answer(Response(HTTP_400_BAD_REQUEST, CategoryErrors(data, pk)))
    ELSE IF suspend THEN Suspend("update_category", pk, NewCategory(data))
    ELSE SaveCategory(pk, NewCategory(data), HTTP_200_OK)

\* GET /categories/{pk}/
diagnosis_category_detail_GET(pk) ==
    IF pk \in DOMAIN categories
    THEN Answer(Response(HTTP_200_OK, {}))
    ELSE Answer(Response(HTTP_404_NOT_FOUND, {"detail"}))

\* DELETE /categories/{pk}/: on_delete=PROTECT makes delete() raise while a
\* Code references the Category
diagnosis_category_detail_DELETE(pk, suspend) ==
    IF pk \notin DOMAIN categories
    THEN Answer(Response(HTTP_404_NOT_FOUND, {"detail"}))
    ELSE IF DiagnosisCodesOf(pk) # {}
    THEN Answer(Response(HTTP_400_BAD_REQUEST, {"error"}))
    ELSE IF suspend THEN Suspend("delete_category", pk, categories[pk])
    ELSE DeleteCategory(pk)

\* the write of the suspended handler w
Resume(w) ==
    [(CASE w.op = "create_code" -> SaveCode(None, w.row, HTTP_201_CREATED)
        [] w.op = "update_code" -> SaveCode(w.pk, w.row, HTTP_200_OK)
        [] w.op = "create_category" -> SaveCategory(None, w.row, HTTP_201_CREATED)
        [] w.op = "update_category" -> SaveCategory(w.pk, w.row, HTTP_200_OK)
        [] w.op = "delete_category" -> DeleteCategory(w.pk))
     EXCEPT !.pending = {}]

\* the outcome o becomes the next state
Serve(o) ==
    /\ categories' = o.categories
    /\ codes' = o.codes
    /\ catSeq' = o.catSeq
    /\ codeSeq' = o.codeSeq
    /\ pending' = o.pending
    /\ resp' = o.resp
    /\ UNCHANGED walk

\* the suspended handler runs its write
save == \E w \in pending : Serve(Resume(w))

----------------------------------------------------------------------------
(* GET /codes/: query builder and paginator.                               *)
(*                                                                         *)
(* A query parameter is the set of its values in the query string: {} when *)
(* the parameter is absent, {v} when it is given as the text v.            *)

\* request.query_params.get(name, default)
Get(param, default) == IF param = {} THEN default ELSE CHOOSE v \in param : TRUE

\* Python truth of query_params.get(name): given and not empty
Given(param) == param # {} /\ param # {<<>>}

IsDigit(c) == c >= 48 /\ c <= 57

\* int(text) for an optional minus sign and decimal digits; ok = FALSE is
\* ValueError
RECURSIVE DigitsValue(_)
DigitsValue(s) ==
    IF s = <<>> THEN 0
    ELSE 10 * DigitsValue(SubSeq(s, 1, Len(s) - 1)) + (s[Len(s)] - 48)

ParseInt(s) ==
    LET neg == s # <<>> /\ s[1] = 45
        digits == IF neg THEN Tail(s) ELSE s
    IN  IF digits # <<>> /\ \A i \in 1..Len(digits) : IsDigit(digits[i])
        THEN [ok |-> TRUE,
              value |-> IF neg THEN 0 - DigitsValue(digits) ELSE DigitsValue(digits)]
        ELSE [ok |-> FALSE, value |-> 0]

\* DiagnosisCodePagination
page_size == 20
max_page_size == 100

Min(a, b) == IF a < b THEN a ELSE b

\* a paginator without the ceiling
Mutant_get_page_size(param) ==
    IF param # {} /\ ParseInt(Get(param, <<>>)).ok /\ ParseInt(Get(param, <<>>)).value > 0
    THEN ParseInt(Get(param, <<>>)).value
    ELSE page_size

\* PageNumberPagination.get_page_size with page_size_query_param = 'page_size':
\* a positive integer is cut off at max_page_size, anything else falls back to
\* page_size
get_page_size(param) ==
    IF param # {} /\ ParseInt(Get(param, <<>>)).ok /\ ParseInt(Get(param, <<>>)).value > 0
    THEN Min(ParseInt(Get(param, <<>>)).value, max_page_size)
    ELSE page_size

\* "true" and "false"
TrueText == <<116, 114, 117, 101>>
FalseText == <<102, 97, 108, 115, 101>>

\* a search that looks at the code only
Mutant_MatchesSearch(code, term) == IContains(code.full_code, term)

\* Q(full_code__icontains) | Q(abbreviated_description__icontains) |
\* Q(full_description__icontains)
MatchesSearch(code, term) ==
    \/ IContains(code.full_code, term)
    \/ IContains(code.abbreviated_description, term)
    \/ IContains(code.full_description, term)

\* the filters of the GET branch; category is compared as the integer the
\* store parses from the parameter
Filtered(params) ==
    {k \in DOMAIN codes :
        /\ Given(params.icd_version) =>
              codes[k].icd_version = Get(params.icd_version, <<>>)
        /\ Lower(Get(params.include_inactive, FalseText)) # TrueText =>
              codes[k].is_active
        /\ Given(params.category) =>
              codes[k].category = ParseInt(Get(params.category, <<>>)).value
        /\ Given(params.search) => MatchesSearch(codes[k], Get(params.search, <<>>))}

\* the row a sorts before the row b under order_by('icd_version', 'full_code')
Mutant_Before(a, b) == StrLess(a.full_code, b.full_code)

Before(a, b) ==
    \/ StrLess(a.icd_version, b.icd_version)
    \/ a.icd_version = b.icd_version /\ StrLess(a.full_code, b.full_code)

\* the rows of S in that order; rows with equal keys come in primary-key order
RECURSIVE OrderBy(_)
OrderBy(S) ==
    IF S = {} THEN <<>>
    ELSE LET first == CHOOSE k \in S :
                 \A j \in S \ {k} :
                     \/ Before(codes[k], codes[j])
                     \/ ~Before(codes[j], codes[k]) /\ k < j
         IN  <<first>> \o OrderBy(S \ {first})

\* a paginator that always offers one page more
Mutant_num_pages(count, per_page) == count \div per_page + 1

\* django.core.paginator.Paginator.num_pages (orphans = 0, an empty first page
\* is allowed)
num_pages(count, per_page) ==
    LET hits == IF count < 1 THEN 1 ELSE count
    IN  (hits + per_page - 1) \div per_page

\* a page that starts one row late
Mutant_PageOf(object_list, number, per_page) ==
    SubSeq(object_list, (number - 1) * per_page + 2,
           Min((number - 1) * per_page + per_page, Len(object_list)))

\* Paginator.page: object_list[bottom:top]
PageOf(object_list, number, per_page) ==
    SubSeq(object_list, (number - 1) * per_page + 1,
           Min((number - 1) * per_page + per_page, Len(object_list)))

\* a response that counts the returned window only
Mutant_Listing(status, queryset, size, number, results, next, previous) ==
    [status |-> status, count |-> Len(results), queryset |-> queryset,
     page_size |-> size, number |-> number, results |-> results,
     next |-> next, previous |-> previous]

Listing(status, queryset, size, number, results, next, previous) ==
    [status |-> status, count |-> Len(queryset), queryset |-> queryset,
     page_size |-> size, number |-> number, results |-> results,
     next |-> next, previous |-> previous]

\* GET /codes/
diagnosis_code_list_create_GET(params) ==
    IF Given(params.category) /\ ~ParseInt(Get(params.category, <<>>)).ok
    THEN \* ValueError of filter(category_id=...) leaves the view
         Listing(HTTP_500_INTERNAL_SERVER_ERROR, <<>>, 0, 0, <<>>, FALSE, FALSE)
    ELSE LET queryset == OrderBy(Filtered(params))
             size == get_page_size(params.page_size)
             page == IF params.page = {} THEN [ok |-> TRUE, value |-> 1]
                     ELSE ParseInt(Get(params.page, <<>>))
             last == num_pages(Len(queryset), size)
         IN  IF ~page.ok \/ page.value < 1 \/ page.value > last
             THEN Listing(HTTP_404_NOT_FOUND, queryset, size, 0, <<>>, FALSE, FALSE)
             ELSE Listing(HTTP_200_OK, queryset, size, page.value,
                          PageOf(queryset, page.value, size),
                          page.value < last, page.value > 1)

\* a window that starts one row late
Mutant_PageWindow(object_list, number, per_page, count) ==
    SubSeq(object_list, (number - 1) * per_page + 2,
           Min(Min(number * per_page, count), Len(object_list)))

\* Paginator.page when Paginator.count was evaluated by an earlier statement:
\* top is cut off at that count, and the slice object_list[bottom:top] is
\* evaluated by one SELECT against the store as it is then
PageWindow(object_list, number, per_page, count) ==
    SubSeq(object_list, (number - 1) * per_page + 1,
           Min(Min(number * per_page, count), Len(object_list)))

\* paginator.paginate_queryset and get_paginated_response of the GET branch,
\* run after SELECT COUNT(*) returned count: the page number is validated
\* against the pages of that count, the window is read from the store now
paginate_queryset(params, count) ==
    LET queryset == OrderBy(Filtered(params))
        size == get_page_size(params.page_size)
        page == IF params.page = {} THEN [ok |-> TRUE, value |-> 1]
                ELSE ParseInt(Get(params.page, <<>>))
        last == num_pages(count, size)
    IN  IF ~page.ok \/ page.value < 1 \/ page.value > last
        THEN [Listing(HTTP_404_NOT_FOUND, queryset, size, 0, <<>>, FALSE, FALSE)
                EXCEPT !.count = count]
        ELSE [Listing(HTTP_200_OK, queryset, size, page.value,
                      PageWindow(queryset, page.value, size, count),
                      page.value < last, page.value > 1)
                EXCEPT !.count = count]

----------------------------------------------------------------------------
(* management/commands/import_icd.py.                                      *)
(*                                                                         *)
(* A CSV table is the header csv.DictReader reads (fieldnames) and the     *)
(* rows; row["X"] raises KeyError when the header has no column X.  The    *)
(* run is one transaction: an exception that leaves handle() rolls the     *)
(* whole run back.                                                         *)

CategoryColumns == {"Category Code", "Category Title"}
CodeColumns ==
    {"Category Code", "Diagnosis Code", "Full Code", "Abbreviated Description",
     "Full Description"}

\* category code "B" appears only in import files
ImportTitles == Titles
ImportCatCodes == CatCodes \cup {<<66>>}

CategoryRows == [code : CatCodes, title : ImportTitles]
CodeRows ==
    [category_code : ImportCatCodes, diagnosis_code : SubCodes, full_code : FullCodes,
     abbreviated_description : ShortTexts, full_description : LongTexts]

SeqsUpTo(S, n) == UNION {[1..m -> S] : m \in 0..n}

CategoryTables ==
    [fieldnames : {CategoryColumns, {"Category Code"}},
     rows : SeqsUpTo(CategoryRows, MaxRows)]
CodeTables ==
    [fieldnames : {CodeColumns, CodeColumns \ {"Full Description"}},
     rows : SeqsUpTo(CodeRows, MaxRows)]

\* state of a run: the tables as the transaction sees them, the counters of
\* the summary, and whether an exception left handle()
ImportStart ==
    [categories |-> categories, codes |-> codes, catSeq |-> catSeq, codeSeq |-> codeSeq,
     categories_count |-> 0, categories_updated |-> 0,
     codes_count |-> 0, codes_updated |-> 0, raised |-> FALSE]

CategoryByKey(cats, code, icd_version) ==
    {k \in DOMAIN cats : cats[k].code = code /\ cats[k].icd_version = icd_version}

\* an import that never finds the Code it is about to write
Mutant_CodeByKey(cds, full_code, icd_version) == {}

CodeByKey(cds, full_code, icd_version) ==
    {k \in DOMAIN cds : cds[k].full_code = full_code /\ cds[k].icd_version = icd_version}

\* one iteration of the category loop: update_or_create on (code, icd_version)
ImportCategoryRow(st, fieldnames, row, icd_version) ==
    IF ~(CategoryColumns \subseteq fieldnames) THEN [st EXCEPT !.raised = TRUE]
    ELSE LET found == CategoryByKey(st.categories, row.code, icd_version)
         IN  IF found # {}
             THEN LET k == CHOOSE k \in found : TRUE
                  IN  [st EXCEPT !.categories[k].title = row.title,
                                 !.categories_updated = @ + 1]
             ELSE [st EXCEPT
                     !.categories = ((st.catSeq + 1) :>
                         [code |-> row.code, title |-> row.title,
                          icd_version |-> icd_version]) @@ st.categories,
                     !.catSeq = @ + 1,
                     !.categories_count = @ + 1]

\* one iteration of the code loop
ImportCodeRow(st, fieldnames, row, icd_version) ==
    IF "Category Code" \notin fieldnames THEN [st EXCEPT !.raised = TRUE]
    ELSE LET cat == CategoryByKey(st.categories, row.category_code, icd_version)
             found == CodeByKey(st.codes, row.full_code, icd_version)
         IN  IF cat = {}
             \* DiagnosisCategory.DoesNotExist: the warning reads row['Full Code']
             THEN IF "Full Code" \in fieldnames THEN st
                  ELSE [st EXCEPT !.raised = TRUE]
             ELSE IF ~(CodeColumns \subseteq fieldnames)
             THEN [st EXCEPT !.raised = TRUE]
             ELSE IF found # {}
             THEN LET k == CHOOSE k \in found : TRUE
                  IN  [st EXCEPT
                         !.codes[k].category = CHOOSE c \in cat : TRUE,
                         !.codes[k].diagnosis_code = row.diagnosis_code,
                         !.codes[k].abbreviated_description = row.abbreviated_description,
                         !.codes[k].full_description = row.full_description,
                         !.codes[k].is_active = TRUE,
                         !.codes_updated = @ + 1]
             ELSE [st EXCEPT
                     !.codes = ((st.codeSeq + 1) :>
                         [category |-> CHOOSE c \in cat : TRUE,
                          diagnosis_code |-> row.diagnosis_code,
                          full_code |-> row.full_code,
                          abbreviated_description |-> row.abbreviated_description,
                          full_description |-> row.full_description,
                          icd_version |-> icd_version,
                          is_active |-> TRUE,
                          valid_from |-> None, valid_to |-> None]) @@ st.codes,
                     !.codeSeq = @ + 1,
                     !.codes_count = @ + 1]

RECURSIVE ImportCategories(_, _, _, _)
ImportCategories(st, fieldnames, rows, icd_version) ==
    IF rows = <<>> \/ st.raised THEN st
    ELSE ImportCategories(ImportCategoryRow(st, fieldnames, Head(rows), icd_version),
                          fieldnames, Tail(rows), icd_version)

RECURSIVE ImportCodes(_, _, _, _)
ImportCodes(st, fieldnames, rows, icd_version) ==
    IF rows = <<>> \/ st.raised THEN st
    ELSE ImportCodes(ImportCodeRow(st, fieldnames, Head(rows), icd_version),
                     fieldnames, Tail(rows), icd_version)

RunImport(icd_version, categories_file, codes_file) ==
    ImportCodes(
        ImportCategories(ImportStart, categories_file.fieldnames,
                         categories_file.rows, icd_version),
        codes_file.fieldnames, codes_file.rows, icd_version)

\* python manage.py import_icd --icd-version=...
handle(icd_version, categories_file, codes_file) ==
    LET st == RunImport(icd_version, categories_file, codes_file)
    IN  IF st.raised
        THEN Answer(ImportReport({"KeyError"}, <<>>))
        ELSE [categories |-> st.categories, codes |-> st.codes,
              catSeq |-> st.catSeq, codeSeq |-> st.codeSeq, pending |-> pending,
              resp |-> ImportReport({},
                          <<st.categories_count, st.categories_updated,
                            st.codes_count, st.codes_updated>>)]

----------------------------------------------------------------------------

\* text of a page number: the decimal digits of n
RECURSIVE IntText(_)
IntText(n) == IF n < 10 THEN <<48 + n>> ELSE IntText(n \div 10) \o <<48 + (n % 10)>>

\* A client walks a listing: the first request, then the `next` link of each
\* response.  walk keeps the parameters, the last response and the results
\* received so far.
NoWalk == [active |-> FALSE]

FirstRequest(params) ==
    LET r == diagnosis_code_list_create_GET(params)
    IN  /\ ~walk.active
        /\ walk' = [active |-> TRUE, params |-> params, response |-> r,
                    first |-> r.number, seen |-> r.results]
        /\ UNCHANGED <<store, pending, resp>>

FollowNext ==
    /\ walk.active
    /\ walk.response.status = HTTP_200_OK
    /\ walk.response.next
    /\ LET params == [walk.params EXCEPT !.page = {IntText(walk.response.number + 1)}]
           r == diagnosis_code_list_create_GET(params)
       IN  walk' = [walk EXCEPT !.params = params, !.response = r,
                                !.seen = @ \o r.results]
    /\ UNCHANGED <<store, pending, resp>>

Init ==
    /\ categories = <<>>
    /\ codes = <<>>
    /\ catSeq = 0
    /\ codeSeq = 0
    /\ pending = {}
    /\ resp = NoResponse
    /\ walk = NoWalk

\* one API request; S says whether the handler may be suspended before its
\* write.  The store hands out primary keys up to MaxCatId / MaxCodeId.
Request(S) ==
    \/ /\ codeSeq < MaxCodeId
       /\ \E data \in CodeData, suspend \in S :
            Serve(diagnosis_code_list_create_POST(data, suspend))
    \/ \E pk \in 1..MaxCodeId, data \in CodeData, suspend \in S :
            Serve(diagnosis_code_detail_PUT(pk, data, suspend))
    \/ \E pk \in 1..MaxCodeId, data \in CodeData, suspend \in S :
            Serve(diagnosis_code_detail_PATCH(pk, data, suspend))
    \/ \E pk \in 1..MaxCodeId : Serve(diagnosis_code_detail_GET(pk))
    \/ \E pk \in 1..MaxCodeId : Serve(diagnosis_code_detail_DELETE(pk))
    \/ /\ catSeq < MaxCatId
       /\ \E data \in CategoryData, suspend \in S :
            Serve(diagnosis_category_list_create_POST(data, suspend))
    \/ \E pk \in 1..MaxCatId, data \in CategoryData, suspend \in S :
            Serve(diagnosis_category_detail_PUT(pk, data, suspend))
    \/ \E pk \in 1..MaxCatId : Serve(diagnosis_category_detail_GET(pk))
    \/ \E pk \in 1..MaxCatId, suspend \in S :
            Serve(diagnosis_category_detail_DELETE(pk, suspend))

Import ==
    \E v \in Versions, cf \in CategoryTables, df \in CodeTables :
        /\ handle(v, cf, df).catSeq <= MaxCatId
        /\ handle(v, cf, df).codeSeq <= MaxCodeId
        /\ Serve(handle(v, cf, df))

\* Requests served one after the other, and import runs.
Next ==
    \/ Request({FALSE})
    \/ Import

Spec == Init /\ [][Next]_vars

\* Two overlapping requests: on a store the program can have built, the first
\* request is suspended before its write, one other request (or an import run)
\* is served, and the first request resumes.
Category1 == [code |-> <<65>>, title |-> <<84>>, icd_version |-> ICD10]
Category2 == [code |-> <<65>>, title |-> <<84>>, icd_version |-> ICD9]
Code1 == [CodeFiller EXCEPT !.category = 1]

RaceStores ==
    {<< <<>>, <<>>, 0, 0 >>,
     << <<Category1>>, <<>>, 1, 0 >>,
     << <<Category1>>, <<Code1>>, 1, 1 >>,
     << <<Category1, Category2>>, <<Code1>>, 2, 1 >>}

RaceInit ==
    /\ \E s \in RaceStores :
            /\ categories = s[1]
            /\ codes = s[2]
            /\ catSeq = s[3]
            /\ codeSeq = s[4]
    /\ pending = {}
    /\ resp = NoResponse
    /\ walk = NoWalk

RaceNext ==
    \/ /\ pending = {}
       /\ resp = NoResponse
       /\ Request({TRUE})
    \/ /\ pending # {}
       /\ resp = NoResponse
       /\ (Request({FALSE}) \/ Import)
    \/ save

SpecRace == RaceInit /\ [][RaceNext]_vars

\* Listings of a store that does not change.  The store is any assignment of
\* primary keys to up to MaxListCodes of the sample rows (distinct keys), over
\* the two sample Categories.
ListRows ==
    {[CodeFiller EXCEPT !.category = 1],
     [CodeFiller EXCEPT !.category = 2, !.icd_version = ICD9],
     [CodeFiller EXCEPT !.full_code = <<66, 49>>, !.is_active = FALSE,
                        !.abbreviated_description = <<67, 111, 108, 100>>,
                        !.full_description = <<99, 111, 108, 100, 32, 102, 108, 117>>],
     [CodeFiller EXCEPT !.category = 1, !.full_code = <<97, 49>>,
                        !.abbreviated_description = <<98, 49>>,
                        !.full_description = <<120>>]}

ListStores ==
    {c \in UNION {[1..n -> ListRows] : n \in 0..MaxListCodes} :
        \A i, j \in DOMAIN c : (i # j) => c[i] # c[j]}

\* query strings: "", "ICD-10" as icd_version; "true", "True", "no" as
\* include_inactive; "1", "7", "x" as category; "FLU", "b1" as search;
\* "2", "0" as page; "0", "1", "2", "100", "101", "x" as page_size
ListParams ==
    [icd_version : {{}, {<<>>}, {ICD10}},
     include_inactive : {{}, {TrueText}, {<<84, 114, 117, 101>>}, {<<110, 111>>}},
     category : {{}, {<<49>>}, {<<55>>}, {<<120>>}},
     search : {{}, {<<70, 76, 85>>}, {<<98, 49>>}},
     page : {{}, {<<50>>}, {<<48>>}},
     page_size : {{}, {<<48>>}, {<<49>>}, {<<50>>}, {<<49, 48, 48>>}, {<<49, 48, 49>>},
                  {<<120>>}}]

ListInit ==
    /\ categories = <<Category1, Category2>>
    /\ codes \in ListStores
    /\ catSeq = 2
    /\ codeSeq = Len(codes)
    /\ pending = {}
    /\ resp = NoResponse
    /\ walk = NoWalk

ListNext ==
    \/ \E params \in ListParams : FirstRequest(params)
    \/ FollowNext

SpecList == ListInit /\ [][ListNext]_vars

\* One listing that overlaps a write.  The GET handler reads the store twice,
\* with SELECT COUNT(*) and with the SELECT of the page, each its own
\* statement in autocommit; one other request may be served between the two.
\* The rows the listing would have returned at the time of the count are kept
\* in `counted`.
PageStores ==
    {c \in ListStores : Len(c) <= MaxCodeId /\ \A i \in DOMAIN c : c[i].category # 2}

\* "true" as include_inactive; "2" as page; "1", "2" as page_size
PageParams ==
    [icd_version : {{}}, include_inactive : {{}, {TrueText}}, category : {{}},
     search : {{}}, page : {{}, {<<50>>}}, page_size : {{<<49>>}, {<<50>>}}]

\* the rows of the pks q, as the store holds them now
Rows(q) == [i \in 1..Len(q) |-> <<q[i], codes[q[i]]>>]

Count(params) ==
    /\ pending = {}
    /\ ~walk.active
    /\ pending' = {[op |-> "list", pk |-> Cardinality(Filtered(params)),
                    row |-> [params |-> params,
                             counted |-> Rows(OrderBy(Filtered(params)))]]}
    /\ UNCHANGED <<store, resp, walk>>

Fetch ==
    \E w \in pending :
        /\ w.op = "list"
        /\ LET r == paginate_queryset(w.row.params, w.pk)
           IN  walk' = [active |-> TRUE, params |-> w.row.params, response |-> r,
                        first |-> r.number, seen |-> r.results,
                        counted |-> w.row.counted, rows |-> Rows(r.results)]
        /\ pending' = {}
        /\ UNCHANGED <<store, resp>>

PageInit ==
    /\ categories = <<Category1>>
    /\ codes \in PageStores
    /\ catSeq = 1
    /\ codeSeq = Len(codes)
    /\ pending = {}
    /\ resp = NoResponse
    /\ walk = NoWalk

PageNext ==
    \/ \E params \in PageParams : Count(params)
    \/ /\ pending # {}
       /\ resp = NoResponse
       /\ Request({FALSE})
    \/ Fetch

SpecPage == PageInit /\ [][PageNext]_vars

----------------------------------------------------------------------------
(* Properties.  A property of a handler is stated of the outcome it        *)
(* computes in every reachable state, for every request of the sampled     *)
(* sets.                                                                   *)

HttpStatus(r, status) == r.kind = "http" /\ r.status = status

StoreOf(o) == <<o.categories, o.codes, o.catSeq, o.codeSeq>>

\* the body supplies a category and a version, and the category's version differs
Mismatch(data) ==
    /\ "category" \in data.has
    /\ data.category \in DOMAIN categories
    /\ "icd_version" \in data.has
    /\ categories[data.category].icd_version # data.icd_version

\* a Code write served without interruption: POST (pk = None), or PUT / PATCH
\* of the Code pk
CodeWrite(pk, data, partial) ==
    IF pk = None THEN diagnosis_code_list_create_POST(data, FALSE)
    ELSE IF partial THEN diagnosis_code_detail_PATCH(pk, data, FALSE)
    ELSE diagnosis_code_detail_PUT(pk, data, FALSE)

CodeWrites ==
    {<<pk, partial>> \in ({None} \cup DOMAIN codes) \X BOOLEAN : ~(pk = None /\ partial)}

\* C1: every Code whose category is set has the version of that Category.
C1_CategoryVersionMatches ==
    \A k \in DOMAIN codes :
        codes[k].category \in DOMAIN categories =>
            categories[codes[k].category].icd_version = codes[k].icd_version

\* C2 as claimed: a Code write (POST, or PUT / PATCH of an existing Code) whose
\* body supplies a category and a version that differ is answered 400 with an
\* error keyed to icd_version.
C2_MismatchKeyedToVersion ==
    \A t \in CodeWrites, data \in CodeData :
        Mismatch(data) =>
            LET o == CodeWrite(t[1], data, t[2])
            IN  HttpStatus(o.resp, HTTP_400_BAD_REQUEST) /\ "icd_version" \in o.resp.errors

\* C2 amended: such a write is answered 400 and changes nothing; the error is
\* keyed to icd_version (alone) when the body passes the field validation and
\* the unique-together validator, which run first.  When the category or the
\* version is left out (or the category is null) the check is skipped: the
\* response carries no icd_version error other than "required" on POST / PUT.
C2_MismatchRejected ==
    \A t \in CodeWrites, data \in CodeData :
        LET pk == t[1]
            partial == t[2]
            o == CodeWrite(pk, data, partial)
        IN  /\ Mismatch(data) =>
                /\ HttpStatus(o.resp, HTTP_400_BAD_REQUEST)
                /\ StoreOf(o) = store
                /\ (CodeFieldErrors(data, partial) = {} /\ CodeUniqueTogetherOk(data, pk))
                      => o.resp.errors = {"icd_version"}
            /\ ("category" \notin data.has \/ data.category = None
                   \/ "icd_version" \notin data.has) =>
                  ("icd_version" \in o.resp.errors =>
                      (~partial /\ "icd_version" \notin data.has))

\* a mismatching write was answered with the version-keyed error
C2_Witness ==
    /\ HttpStatus(resp, HTTP_400_BAD_REQUEST)
    /\ resp.errors = {"icd_version"}
    /\ DOMAIN codes # {}

SameCodeKey(a, b) == a.full_code = b.full_code /\ a.icd_version = b.icd_version

HasKeyFields(data) == {"full_code", "icd_version"} \subseteq data.has

\* C3: no two Codes share (full_code, icd_version); a POST whose key is held by
\* a Code is answered 400 and adds nothing; a valid POST whose key is free is
\* answered 201 and adds exactly that Code, also when the same full_code
\* exists under another version.
C3_CodeKeyUnique ==
    /\ \A j, k \in DOMAIN codes : (j # k) => ~SameCodeKey(codes[j], codes[k])
    /\ \A data \in CodeData :
          HasKeyFields(data) =>
            LET o == diagnosis_code_list_create_POST(data, FALSE)
            IN  IF \E k \in DOMAIN codes : SameCodeKey(codes[k], data)
                THEN HttpStatus(o.resp, HTTP_400_BAD_REQUEST) /\ StoreOf(o) = store
                ELSE (CodeFieldErrors(data, FALSE) = {} /\ ~Mismatch(data)) =>
                        /\ HttpStatus(o.resp, HTTP_201_CREATED)
                        /\ o.codeSeq \notin DOMAIN codes
                        /\ DOMAIN o.codes = DOMAIN codes \cup {o.codeSeq}
                        /\ SameCodeKey(o.codes[o.codeSeq], data)
                        /\ \A k \in DOMAIN codes : o.codes[k] = codes[k]

\* a Code was just created next to one with its full_code under another version
C3_Witness ==
    /\ HttpStatus(resp, HTTP_201_CREATED)
    /\ codeSeq \in DOMAIN codes
    /\ \E k \in DOMAIN codes :
          /\ codes[k].full_code = codes[codeSeq].full_code
          /\ codes[k].icd_version # codes[codeSeq].icd_version

SameCategoryKey(a, b) == a.code = b.code /\ a.icd_version = b.icd_version

\* C4: no two Categories share (code, icd_version); a POST, or a PUT of an
\* existing Category, to a key held by another Category is answered 400 and
\* changes nothing; a POST of a complete body with a free key is answered 201
\* and adds exactly that Category, also when the same code exists under
\* another version.
C4_CategoryKeyUnique ==
    /\ \A j, k \in DOMAIN categories :
          (j # k) => ~SameCategoryKey(categories[j], categories[k])
    /\ \A data \in CategoryData :
          (CategoryFields \subseteq data.has) =>
            /\ LET o == diagnosis_category_list_create_POST(data, FALSE)
               IN  IF \E k \in DOMAIN categories : SameCategoryKey(categories[k], data)
                   THEN HttpStatus(o.resp, HTTP_400_BAD_REQUEST) /\ StoreOf(o) = store
                   ELSE /\ HttpStatus(o.resp, HTTP_201_CREATED)
                        /\ o.catSeq \notin DOMAIN categories
                        /\ DOMAIN o.categories = DOMAIN categories \cup {o.catSeq}
                        /\ o.categories[o.catSeq] = NewCategory(data)
                        /\ \A k \in DOMAIN categories : o.categories[k] = categories[k]
            /\ \A pk \in DOMAIN categories :
                  (\E k \in DOMAIN categories \ {pk} : SameCategoryKey(categories[k], data))
                  => LET o == diagnosis_category_detail_PUT(pk, data, FALSE)
                     IN  HttpStatus(o.resp, HTTP_400_BAD_REQUEST) /\ StoreOf(o) = store

\* a Category was just created next to one with its code under another version
C4_Witness ==
    /\ HttpStatus(resp, HTTP_201_CREATED)
    /\ catSeq \in DOMAIN categories
    /\ \E k \in DOMAIN categories :
          /\ categories[k].code = categories[catSeq].code
          /\ categories[k].icd_version # categories[catSeq].icd_version

\* C5: DELETE of a Category that a Code references is answered 400 and changes
\* nothing; DELETE of a Category no Code references is answered 204 and
\* removes exactly that Category.
C5_DeleteProtect ==
    \A pk \in DOMAIN categories :
        LET o == diagnosis_category_detail_DELETE(pk, FALSE)
        IN  IF \E k \in DOMAIN codes : codes[k].category = pk
            THEN HttpStatus(o.resp, HTTP_400_BAD_REQUEST) /\ StoreOf(o) = store
            ELSE /\ HttpStatus(o.resp, HTTP_204_NO_CONTENT)
                 /\ DOMAIN o.categories = DOMAIN categories \ {pk}
                 /\ \A k \in DOMAIN o.categories : o.categories[k] = categories[k]
                 /\ o.codes = codes

\* a DELETE was just refused for a Category that a Code references
C5_Witness ==
    /\ HttpStatus(resp, HTTP_400_BAD_REQUEST)
    /\ resp.errors = {"error"}
    /\ \E k \in DOMAIN codes : codes[k].category \in DOMAIN categories

\* the write of the suspended handler collides with a row stored meanwhile
UniquenessViolated(w) ==
    \/ w.op \in {"create_code", "update_code"} /\ ~CodeUnique(w.pk, w.row)
    \/ w.op \in {"create_category", "update_category"} /\ ~CategoryUnique(w.pk, w.row)

\* C6: a write that violates a uniqueness constraint is answered with a 400,
\* never with the store's exception, also when it passed the serializer's
\* uniqueness check before a concurrent request stored the same key.
C6_UniquenessViolationIs400 ==
    \A w \in pending :
        UniquenessViolated(w) => HttpStatus(Resume(w).resp, HTTP_400_BAD_REQUEST)

\* a listing was answered (the query ran)
Listed == walk.active /\ walk.response.status # HTTP_500_INTERNAL_SERVER_ERROR

Range(q) == {q[i] : i \in 1..Len(q)}

\* (a.icd_version, a.full_code) <= (b.icd_version, b.full_code)
KeyLeq(a, b) ==
    \/ StrLess(a.icd_version, b.icd_version)
    \/ a.icd_version = b.icd_version /\ ~StrLess(b.full_code, a.full_code)

\* C7: the pages 1..last of a listing, concatenated in page order, are the
\* ordered filtered sequence, every item once: after page n of a walk from
\* page 1 the client holds the first n * page_size items, and all of them
\* when no next page is offered.
C7_PagesConcatenate ==
    (walk.active /\ walk.first = 1 /\ walk.response.status = HTTP_200_OK) =>
        LET r == walk.response
            full == OrderBy(Filtered(walk.params))
        IN  /\ walk.seen = SubSeq(full, 1, Min(r.number * r.page_size, Len(full)))
            /\ \A i, j \in 1..Len(walk.seen) : (i # j) => walk.seen[i] # walk.seen[j]
            /\ ~r.next => (walk.seen = full /\ Range(walk.seen) = Filtered(walk.params))

\* a walk from page 1 has fetched its last page, the second or later
C7_Witness ==
    /\ walk.active
    /\ walk.first = 1
    /\ walk.response.status = HTTP_200_OK
    /\ walk.response.number >= 2
    /\ ~walk.response.next
    /\ Len(walk.seen) >= 3

\* the filters of C8, with include_inactive compared as `flag` says
Satisfies(code, params, flag(_)) ==
    /\ Given(params.icd_version) => code.icd_version \in params.icd_version
    /\ ~(params.include_inactive # {} /\ flag(Get(params.include_inactive, <<>>)))
          => code.is_active
    /\ Given(params.category) =>
          /\ code.category # None
          /\ IntText(code.category) = Get(params.category, <<>>)
    /\ Given(params.search) =>
          \E f \in {"full_code", "abbreviated_description", "full_description"} :
              IContains(code[f], Get(params.search, <<>>))

IsTrueText(v) == v = TrueText
IsTrueTextAnyCase(v) == Lower(v) = TrueText

\* C8 as claimed: a listing ranges over exactly the stored Codes that satisfy
\* every filter given (a parameter given as the empty text counts as not
\* given): version equality, is_active unless include_inactive is 'true',
\* category-id equality, search term contained, ignoring case, in one of the
\* three text fields.
C8_FilteredSet ==
    Listed =>
        Range(walk.response.queryset) =
            {k \in DOMAIN codes : Satisfies(codes[k], walk.params, IsTrueText)}

\* C8 amended: the same, with include_inactive compared to 'true' ignoring
\* letter case; with no filter given the listing ranges over all active Codes.
C8_FilteredSetAnyCase ==
    Listed =>
        /\ Range(walk.response.queryset) =
              {k \in DOMAIN codes : Satisfies(codes[k], walk.params, IsTrueTextAnyCase)}
        /\ walk.response.count = Cardinality(Range(walk.response.queryset))
        /\ (\A f \in {"icd_version", "include_inactive", "category", "search"} :
                walk.params[f] = {})
              => Range(walk.response.queryset) = {k \in DOMAIN codes : codes[k].is_active}

\* a search together with include_inactive found a Code through a description
C8_Witness ==
    /\ Listed
    /\ Given(walk.params.search)
    /\ walk.params.include_inactive = {<<84, 114, 117, 101>>}
    /\ \E k \in Range(walk.response.queryset) :
          /\ ~IContains(codes[k].full_code, Get(walk.params.search, <<>>))
          /\ ~codes[k].is_active

\* C9: in a response, and across the consecutive pages of a walk, a Code that
\* comes before another has the smaller or equal (icd_version, full_code).
C9_SortOrder ==
    (walk.active /\ walk.response.status = HTTP_200_OK) =>
        /\ \A i, j \in 1..Len(walk.seen) :
              (i < j) => KeyLeq(codes[walk.seen[i]], codes[walk.seen[j]])
        /\ \A i, j \in 1..Len(walk.response.results) :
              (i < j) => KeyLeq(codes[walk.response.results[i]],
                                codes[walk.response.results[j]])

\* two pages were fetched and hold Codes of both versions
C9_Witness ==
    /\ walk.active
    /\ walk.response.status = HTTP_200_OK
    /\ walk.response.number > walk.first
    /\ \E i, j \in 1..Len(walk.seen) :
          codes[walk.seen[i]].icd_version # codes[walk.seen[j]].icd_version

\* C10: the page size is 20 when none is requested, the requested number when
\* it is between 1 and 100, and 100 when it is larger; a request above the
\* ceiling is answered as the same request for 100 is.
C10_PageSize ==
    Listed =>
        LET param == walk.params.page_size
            n == ParseInt(Get(param, <<>>))
        IN  /\ param = {} => walk.response.page_size = 20
            /\ (param # {} /\ n.ok /\ n.value >= 1 /\ n.value <= 100)
                  => walk.response.page_size = n.value
            /\ (param # {} /\ n.ok /\ n.value > 100) =>
                  /\ walk.response.page_size = 100
                  /\ walk.response =
                        diagnosis_code_list_create_GET(
                            [walk.params EXCEPT !.page_size = {IntText(100)}])

\* a listing was requested with page_size=101 and served
C10_Witness ==
    /\ walk.active
    /\ walk.params.page_size = {<<49, 48, 49>>}
    /\ walk.response.status = HTTP_200_OK
    /\ walk.response.page_size = 100
    /\ walk.response.count > 0

\* the page number a listing asks for: 1 when no page is given
RequestedPage(params) ==
    IF params.page = {} THEN [ok |-> TRUE, value |-> 1]
    ELSE ParseInt(Get(params.page, <<>>))

\* C11: a listing that asks for page p >= 2 although the pages before p
\* already exhaust the filtered sequence is answered 404, also when the
\* sequence is empty; page 1 of an empty sequence is answered 200 with no
\* results; a page that still holds items is answered 200.
C11_PageBeyondLastIs404 ==
    (Listed /\ RequestedPage(walk.params).ok) =>
        LET p == RequestedPage(walk.params).value
            r == walk.response
            total == Cardinality(Filtered(walk.params))
        IN  /\ (p >= 2 /\ (p - 1) * r.page_size >= total) =>
                  (r.status = HTTP_404_NOT_FOUND /\ r.results = <<>>)
            /\ (p = 1 /\ total = 0) =>
                  (r.status = HTTP_200_OK /\ r.results = <<>> /\ r.count = 0)
            /\ (p >= 1 /\ (p - 1) * r.page_size < total) =>
                  (r.status = HTTP_200_OK /\ r.results # <<>>)

\* page 2 of an empty filtered sequence was refused, in a store that holds Codes
C11_Witness ==
    /\ Listed
    /\ walk.params.page = {<<50>>}
    /\ Filtered(walk.params) = {}
    /\ DOMAIN codes # {}
    /\ walk.response.status = HTTP_404_NOT_FOUND

\* C12: in a listing answered 200, count is the length of the whole filtered
\* sequence, next is offered exactly when items follow the returned window,
\* and previous exactly when the page is after the first.
C12_Metadata ==
    (walk.active /\ walk.response.status = HTTP_200_OK) =>
        LET r == walk.response
            total == Cardinality(Filtered(walk.params))
        IN  /\ r.count = total
            /\ r.number = RequestedPage(walk.params).value
            /\ r.next <=> (r.number * r.page_size < total)
            /\ r.previous <=> (r.number > 1)

\* a middle page was served: it offers both next and previous
C12_Witness ==
    /\ walk.active
    /\ walk.response.status = HTTP_200_OK
    /\ walk.response.next
    /\ walk.response.previous
    /\ walk.response.count = 3

\* the category parameter names no stored Category
UnknownCategory(params) ==
    /\ Given(params.category)
    /\ \A k \in DOMAIN categories : IntText(k) # Get(params.category, <<>>)

\* C13: a listing filtered by a category value that matches no stored
\* Category is answered 200 with an empty result set and count 0.
C13_UnknownCategoryIsEmpty ==
    (walk.active /\ UnknownCategory(walk.params) /\ walk.params.page = {}) =>
        /\ walk.response.status = HTTP_200_OK
        /\ walk.response.results = <<>>
        /\ walk.response.count = 0

\* C14: a PATCH of a Code that is answered 200 sets the fields of the body and
\* leaves every other field of that Code, every other Code and every Category
\* as they were.
C14_PatchFrame ==
    \A pk \in DOMAIN codes, data \in CodeData :
        LET o == diagnosis_code_detail_PATCH(pk, data, FALSE)
        IN  HttpStatus(o.resp, HTTP_200_OK) =>
                /\ DOMAIN o.codes = DOMAIN codes
                /\ \A f \in CodeFields \ data.has : o.codes[pk][f] = codes[pk][f]
                /\ \A f \in data.has : o.codes[pk][f] = data[f]
                /\ \A k \in DOMAIN codes \ {pk} : o.codes[k] = codes[k]
                /\ o.categories = categories
                /\ o.catSeq = catSeq /\ o.codeSeq = codeSeq

\* a Code with a category is stored, and a PATCH of its version alone is
\* answered 200 and changes it
C14_Witness ==
    \E pk \in DOMAIN codes, data \in CodeData :
        /\ data.has = {"icd_version"}
        /\ codes[pk].category # None
        /\ data.icd_version # codes[pk].icd_version
        /\ HttpStatus(diagnosis_code_detail_PATCH(pk, data, FALSE).resp, HTTP_200_OK)
        /\ diagnosis_code_detail_PATCH(pk, data, FALSE).codes[pk] # codes[pk]

\* the outcomes of every API request that can be sent in this state
ApiOutcomes ==
    {diagnosis_code_list_create_POST(data, FALSE) : data \in CodeData}
    \cup {CodeUpdate(pk, data, partial, FALSE) :
              pk \in 1..MaxCodeId, data \in CodeData, partial \in BOOLEAN}
    \cup {diagnosis_code_detail_GET(pk) : pk \in 1..MaxCodeId}
    \cup {diagnosis_code_detail_DELETE(pk) : pk \in 1..MaxCodeId}
    \cup {diagnosis_category_list_create_POST(data, FALSE) : data \in CategoryData}
    \cup {diagnosis_category_detail_PUT(pk, data, FALSE) :
              pk \in 1..MaxCatId, data \in CategoryData}
    \cup {diagnosis_category_detail_GET(pk) : pk \in 1..MaxCatId}
    \cup {diagnosis_category_detail_DELETE(pk, FALSE) : pk \in 1..MaxCatId}

\* C15: a request answered 400 or 404 leaves the store as it was.
C15_RejectedChangesNothing ==
    \A o \in ApiOutcomes :
        (HttpStatus(o.resp, HTTP_400_BAD_REQUEST) \/ HttpStatus(o.resp, HTTP_404_NOT_FOUND))
            => StoreOf(o) = store

\* a write was just refused by the uniqueness validator, in a store that
\* holds Codes and Categories
C15_Witness ==
    /\ HttpStatus(resp, HTTP_400_BAD_REQUEST)
    /\ resp.errors = {"non_field_errors"}
    /\ DOMAIN codes # {}
    /\ DOMAIN categories # {}

\* the window of page `number` of the sequence q
WindowOf(q, number, per_page) ==
    SubSeq(q, (number - 1) * per_page + 1, Min(number * per_page, Len(q)))

\* C16 as claimed: the response of a listing that overlapped a write is the
\* response of one store state, the one counted or the one fetched from: its
\* rows are the page's window of that state's ordered filtered sequence and
\* count is that sequence's length.
C16_OneStoreState ==
    (walk.active /\ walk.response.status = HTTP_200_OK) =>
        LET r == walk.response
            now == Rows(OrderBy(Filtered(walk.params)))
        IN  \/ /\ walk.rows = WindowOf(walk.counted, r.number, r.page_size)
               /\ r.count = Len(walk.counted)
            \/ /\ walk.rows = WindowOf(now, r.number, r.page_size)
               /\ r.count = Len(now)

\* C16 amended: the returned rows are a contiguous run, starting at the
\* page's offset, of the ordered filtered sequence of one store state, the
\* one the page is fetched from; count, the page check and next come from the
\* state counted before, which bounds the window's end.  Without a write in
\* between the response is that of the undivided request.
C16_WindowOfFetchState ==
    (walk.active /\ walk.response.status = HTTP_200_OK) =>
        LET r == walk.response
            now == Rows(OrderBy(Filtered(walk.params)))
            bottom == (r.number - 1) * r.page_size
        IN  /\ walk.rows = SubSeq(now, bottom + 1, bottom + Len(walk.rows))
            /\ Len(walk.rows) =
                  IF Len(now) <= bottom THEN 0
                  ELSE Min(Min(r.page_size, r.count - bottom), Len(now) - bottom)
            /\ r.count = Len(walk.counted)
            /\ r.next <=> (r.number * r.page_size < r.count)
            /\ resp = NoResponse => r = diagnosis_code_list_create_GET(walk.params)

\* a listing was served after a write changed the sequence it had counted
C16_Witness ==
    /\ walk.active
    /\ walk.response.status = HTTP_200_OK
    /\ walk.rows # <<>>
    /\ resp # NoResponse
    /\ walk.response.count # Cardinality(Filtered(walk.params))

\* the runs the command can be started with
ImportRuns == Versions \X CategoryTables \X CodeTables

\* a table with a row that lacks a column the loop reads
LacksColumn(table, columns) == table.rows # <<>> /\ ~(columns \subseteq table.fieldnames)

\* C17: when a row of either table lacks a required column the run aborts, and
\* the store is then what it was before the run.
C17_MissingColumnAborts ==
    \A run \in ImportRuns :
        (LacksColumn(run[2], CategoryColumns) \/ LacksColumn(run[3], CodeColumns)) =>
            LET o == handle(run[1], run[2], run[3])
            IN  o.resp.errors # {} /\ StoreOf(o) = store

\* the same run started again from the state st a first run left
SecondRun(st, run) ==
    ImportCodes(
        ImportCategories(
            [st EXCEPT !.categories_count = 0, !.categories_updated = 0,
                       !.codes_count = 0, !.codes_updated = 0],
            run[2].fieldnames, run[2].rows, run[1]),
        run[3].fieldnames, run[3].rows, run[1])

\* C18: a run that commits, started again with the same tables and version,
\* commits again, creates no record and leaves the store as the first run
\* left it.
C18_ImportIdempotent ==
    \A run \in ImportRuns :
        LET once == RunImport(run[1], run[2], run[3])
            twice == SecondRun(once, run)
        IN  ~once.raised =>
                /\ ~twice.raised
                /\ twice.categories = once.categories
                /\ twice.codes = once.codes
                /\ twice.catSeq = once.catSeq
                /\ twice.codeSeq = once.codeSeq
                /\ twice.categories_count = 0
                /\ twice.codes_count = 0

\* a run has just created a Category and a Code, and a run started now
\* updates one of each and leaves the store as it is
C18_Witness ==
    /\ resp.kind = "import"
    /\ resp.summary = <<1, 0, 1, 0>>
    /\ \E run \in ImportRuns :
          /\ handle(run[1], run[2], run[3]).resp.summary = <<0, 1, 0, 1>>
          /\ StoreOf(handle(run[1], run[2], run[3])) = store

\* the rows of the Code table whose category the run cannot resolve
Skipped(run) ==
    LET st == ImportCategories(ImportStart, run[2].fieldnames, run[2].rows, run[1])
    IN  {i \in DOMAIN run[3].rows :
            CategoryByKey(st.categories, run[3].rows[i].category_code, run[1]) = {}}

\* C19: a run over complete tables commits whatever rows it skips, a skipped
\* row creates and changes no Code, and the summary of the run tells how many
\* rows were skipped: two runs with the same summary skipped equally many.
C19_SummaryReportsSkips ==
    \A a \in ImportRuns, b \in ImportRuns :
        LET complete(run) == run[2].fieldnames = CategoryColumns
                                /\ run[3].fieldnames = CodeColumns
            oa == handle(a[1], a[2], a[3])
            ob == handle(b[1], b[2], b[3])
        IN  (complete(a) /\ complete(b)) =>
                /\ oa.resp.errors = {}
                /\ (Skipped(a) = DOMAIN a[3].rows) => oa.codes = codes
                /\ (oa.resp.summary = ob.resp.summary) =>
                      Cardinality(Skipped(a)) = Cardinality(Skipped(b))

\* C20: every Code whose category is set references a stored Category, also
\* while a handler is suspended before its write and after it resumes.
C20_NoDanglingCategory ==
    \A k \in DOMAIN codes :
        codes[k].category # None => codes[k].category \in DOMAIN categories

\* a Code write that referenced a Category was resumed after the Category had
\* been deleted, and the store refused it
C20_Witness ==
    /\ HttpStatus(resp, HTTP_500_INTERNAL_SERVER_ERROR)
    /\ pending = {}
    /\ catSeq >= 1
    /\ DOMAIN categories = {}
    /\ DOMAIN codes = {}

====
